---- MODULE Spec2Model ----
(***************************************************************************)
(* Account service of the ryde-uber-clone backend: the users and otp_codes *)
(* tables, the JWT access/refresh tokens in the hands of clients, the      *)
(* request handlers of backend/src/controllers (auth and user) and the     *)
(* middlewares in front of them.                                           *)
(*                                                                         *)
(* Every request handler runs to completion as one action, except in the   *)
(* three specifications of requests in flight at the same time.            *)
(*                                                                         *)
(* Spec           account lifecycle from an empty database: sign-up,       *)
(*                verify-email, verify-otp, sign-in.                       *)
(* SpecSignUp     sign-up alone, with and without an avatar file.          *)
(* SpecSession    two verified accounts: sign-in, sign-out, refresh-token. *)
(* SpecOtp        two accounts, one unverified: verify-email,              *)
(*                forgot-password, verify-otp.                             *)
(* SpecProfile    the /user routes behind the role checks, sign-up and     *)
(*                sign-in, on a database of one passenger or driver        *)
(*                and one admin.                                           *)
(* SpecAuthCheck  the routes behind verifyJWT, and account deletion.       *)
(* SpecSignUpRace sign-up requests split at their awaits and interleaved.  *)
(* SpecRefreshRace    refresh-token requests split at their awaits.        *)
(* SpecVerifyOtpRace  verify-otp requests split at their awaits.           *)
(* SpecSweep      verify-email and verify-otp with the hourly sweep of     *)
(*                expired OTP rows running beside them.                    *)
(* SpecOtpGenerator   one call of otpGenerator(length, options).           *)
(***************************************************************************)
EXTENDS Integers, FiniteSets, Sequences, TLC

VARIABLES
    users,        \* rows of table users
    otp_codes,    \* rows of table otp_codes
    nextUserId,   \* next value of users.id (ids are never reused)
    nextOtpId,    \* next value of the otp_codes.id SERIAL, also the created_at order
    now,          \* wall clock, in minutes
    issued,       \* tokens handed out in responses, i.e. what clients can present
    redeemed,     \* history: refresh tokens a refresh-token request has succeeded with
    revoked,      \* history: refresh tokens a user held when a sign-out succeeded for it
    consumed,     \* history: otp rows a verify-otp request has succeeded with
    signedUpWith, \* history: plaintext password of each successful sign-up, by user id
    last,         \* the request handled last: inputs, handler locals, first response
    reqs          \* processes beside `last`: requests in flight, the sweep, a call

vars == <<users, otp_codes, nextUserId, nextOtpId, now, issued, redeemed, revoked,
          consumed, signedUpWith, last, reqs>>

----------------------------------------------------------------------------
(* Bounds of the model *)

MaxUsers == 3          \* user rows ever inserted
MaxOtps == 2           \* otp rows ever inserted
MaxTime == 20          \* the clock stops here
MinutesPerTick == 10   \* granularity of the clock
MaxIssued == 2         \* token pairs ever handed out
MaxInFlight == 2       \* concurrent requests
MaxLen == 3            \* length asked of otpGenerator

(* Environment configuration (process.env), in minutes *)
ACCESS_TOKEN_EXPIRY == 10
REFRESH_TOKEN_EXPIRY == 20

(* Program constants *)
OtpExpiryMinutes == 10
saltRounds == 10

(* Input domains; "" is a missing (falsy) field *)
Emails == {"a@x.com", "b@x.com"}
Passwords == {"pw1", "pw2"}
Roles == {"driver", "user", "admin"}
OtpChars == {"7k#", "q2!"}
Salts == {"s1"}

----------------------------------------------------------------------------
(* Values *)

NoToken == [secret |-> "none", userId |-> 0, role |-> "", iat |-> 0, exp |-> 0]
Forged == [secret |-> "forged", userId |-> 1, role |-> "admin", iat |-> 0, exp |-> 1000]


(* A value of the password column.  bcrypt output carries its algorithm    *)
(* tag, cost and salt; its digest is a function of salt and plaintext.     *)
PasswordText(text) ==
    [alg |-> "", cost |-> 0, salt |-> "", digest |-> <<text>>]

NoUser ==
    [id |-> 0, email |-> "", firstname |-> "", lastname |-> "",
     password |-> PasswordText(""), avatar |-> "", role |-> "",
     is_verified |-> FALSE, refresh_token |-> NoToken]

NoOtp == [id |-> 0, user_id |-> 0, otp |-> "", otp_expiry |-> 0, created_at |-> 0]

NoData == [cols |-> {}, row |-> NoUser]

(* The request handled last.  status/message are those of the FIRST call   *)
(* of res.json (0: none yet); threw says that an exception left the        *)
(* handler; effects are the calls made to the mail transport and the image *)
(* host; replay says that the refresh token presented had been redeemed   *)
(* by an earlier request, or that the user signed out had been signed out *)
(* before; handled says that the route's handler was        *)
(* invoked (a middleware called next()); tokenUserExists says that the     *)
(* user id of the presented token resolved to a row when the request came  *)
(* in; list is the array of rows a listing responds with.                  *)
Request(op) ==
    [op |-> op, at |-> now, status |-> 0, message |-> "", threw |-> FALSE,
     firstname |-> "", lastname |-> "", email |-> "", password |-> "",
     role |-> "", otp |-> "", id |-> 0, token |-> NoToken,
     userData |-> NoUser, otpData |-> NoOtp, data |-> NoData,
     accessToken |-> NoToken, refreshToken |-> NoToken, cookies |-> {},
     file |-> FALSE, effects |-> {}, replay |-> FALSE, handled |-> FALSE,
     tokenUserExists |-> FALSE, list |-> {}]

Respond(req, status, message) ==
    [req EXCEPT !.status = status, !.message = message]

----------------------------------------------------------------------------
(* utils: validation, lookup, hashing, errors *)

validateRequiredFields(fields) ==
    \A i \in 1..Len(fields) : fields[i] # ""

Error(message) == [statusCode |-> 0, message |-> message]

ApiError(statusCode, message) == [statusCode |-> statusCode, message |-> message]

handleError(error, defaultMessage) ==
    [status  |-> IF error.statusCode # 0 THEN error.statusCode ELSE 500,
     message |-> IF error.message # "" THEN error.message ELSE defaultMessage]

SelectUserByEmail(email) ==
    IF \E u \in users : u.email = email
    THEN CHOOSE u \in users : u.email = email
    ELSE NoUser

SelectUserById(id) ==
    IF \E u \in users : u.id = id
    THEN CHOOSE u \in users : u.id = id
    ELSE NoUser

checkUserExistsUtils(email, expectUserToExist) ==
    LET row == SelectUserByEmail(email)
        exists == row.id # 0
    IN  IF expectUserToExist /\ ~exists
        THEN [threw |-> TRUE, error |-> Error("User does not exist"), userData |-> NoUser]
        ELSE IF ~expectUserToExist /\ exists
        THEN [threw |-> TRUE, error |-> Error("User already exists"), userData |-> row]
        ELSE [threw |-> FALSE, error |-> Error(""), userData |-> row]

hashPassword_plaintext(password, salt) ==
    PasswordText(password)

hashPassword(password, salt) ==
    [alg |-> "$2b$", cost |-> saltRounds, salt |-> salt, digest |-> <<salt, password>>]

verifyPassword(plainPassword, hashedPassword) ==
    /\ hashedPassword.alg = "$2b$"
    /\ hashedPassword = [hashedPassword EXCEPT !.digest = <<hashedPassword.salt, plainPassword>>]

----------------------------------------------------------------------------
(* Table users: the UNIQUE constraint on email and the CHECK on role *)

InsertUserOk_noUnique(row) ==
    row.role \in Roles

InsertUserOk(row) ==
    /\ \A u \in users : u.email # row.email
    /\ row.role \in Roles

Returning_star(row, cols) ==
    [cols |-> DOMAIN row, row |-> row]

(* RETURNING id, email, firstname, lastname, avatar *)
Returning(row, cols) ==
    [cols |-> cols,
     row  |-> [NoUser EXCEPT
                 !.id = IF "id" \in cols THEN row.id ELSE 0,
                 !.email = IF "email" \in cols THEN row.email ELSE "",
                 !.firstname = IF "firstname" \in cols THEN row.firstname ELSE "",
                 !.lastname = IF "lastname" \in cols THEN row.lastname ELSE "",
                 !.avatar = IF "avatar" \in cols THEN row.avatar ELSE "",
                 !.role = IF "role" \in cols THEN row.role ELSE "",
                 !.password = IF "password" \in cols THEN row.password ELSE PasswordText(""),
                 !.is_verified = IF "is_verified" \in cols THEN row.is_verified ELSE FALSE,
                 !.refresh_token = IF "refresh_token" \in cols THEN row.refresh_token ELSE NoToken]]

(* uploadOnCloudinary: the url of the new asset, or null when the upload fails *)
uploadOnCloudinary(file, uploadOk) ==
    IF file /\ uploadOk THEN "http://res.cloudinary.com/ryde-uber-clone/avatar.png" ELSE ""

(* What a call of uploadOnCloudinary does besides returning: the upload,   *)
(* and the fs.unlinkSync of the temp file after success (line 30-31) and   *)
(* after failure (line 41-42).                                             *)
uploadEffects(file, uploadOk) ==
    IF ~file THEN {}
    ELSE IF uploadOk THEN {"upload", "unlink"}
    ELSE {"unlink"}

NewUserRow(req, avatar, salt) ==
    [id |-> nextUserId, email |-> req.email, firstname |-> req.firstname,
     lastname |-> req.lastname, password |-> hashPassword(req.password, salt),
     avatar |-> avatar, role |-> req.role, is_verified |-> FALSE,
     refresh_token |-> NoToken]

----------------------------------------------------------------------------
(* POST /auth/sign-up *)

(* Request bodies: every combination of present fields, one with a role   *)
(* the CHECK constraint rejects, and one body per missing field.           *)
SignUpBodies ==
    LET full == [firstname : {"Jane"}, lastname : {"Doe"}, email : Emails,
                 password : Passwords, role : {"user"}]
        one == [firstname |-> "Jane", lastname |-> "Doe", email |-> "a@x.com",
                password |-> "pw1", role |-> "user"]
    IN  full \cup {[one EXCEPT !.role = "pilot"]}
             \cup {[one EXCEPT ![f] = ""] : f \in DOMAIN one}

SignUpRequest(body, file) ==
    [Request("sign-up") EXCEPT !.firstname = body.firstname, !.lastname = body.lastname,
                               !.email = body.email, !.password = body.password,
                               !.role = body.role, !.file = file]

(* Lines 144-154: validation, then the existence check.  The outcome is    *)
(* the response sent, or status 0 when the handler goes on.                *)
SignUpCheck(req) ==
    LET isValid == validateRequiredFields(
                       <<req.firstname, req.lastname, req.email, req.password, req.role>>)
        check == checkUserExistsUtils(req.email, FALSE)
        caught == handleError(check.error, "Something went wrong while signing up")
    IN  IF ~isValid THEN Respond(req, 400, "Missing required fields")
        ELSE IF check.threw
             THEN [Respond(req, caught.status, caught.message) EXCEPT !.userData = check.userData]
        ELSE req

(* Lines 163-168: INSERT INTO users ... RETURNING *)
SignUpInsert(req, row) ==
    IF InsertUserOk(row)
    THEN [req EXCEPT !.data = Returning(row, {"id", "email", "firstname", "lastname", "avatar"})]
    ELSE LET caught == handleError(Error("violates constraint"), "Something went wrong while signing up")
         IN  Respond(req, caught.status, caught.message)

(* Lines 170-179: the welcome email, then the 201 *)
SignUpMail(req, mailOk) ==
    IF mailOk
    THEN [Respond(req, 201, "User signed up successfully")
            EXCEPT !.effects = req.effects \cup {"welcome-mail"}]
    ELSE LET caught == handleError(Error("mail transport error"), "Something went wrong while signing up")
         IN  Respond(req, caught.status, caught.message)

Remember(f, k, v) ==
    [i \in DOMAIN f \cup {k} |-> IF i = k THEN v ELSE f[i]]

SignUp(bodies, files) ==
    \E body \in bodies, file \in files :
        LET req == SignUpRequest(body, file)
            checked == SignUpCheck(req)
        IN
        /\ UNCHANGED <<otp_codes, nextOtpId, now, issued, redeemed, revoked, consumed, reqs>>
        /\ IF checked.status # 0
           THEN /\ last' = checked
                /\ UNCHANGED <<users, nextUserId, signedUpWith>>
           ELSE \E uploadOk \in (IF file THEN BOOLEAN ELSE {FALSE}), salt \in Salts :
                LET avatar == uploadOnCloudinary(file, uploadOk)
                    uploaded == [checked EXCEPT !.effects = uploadEffects(file, uploadOk)]
                    row == NewUserRow(req, avatar, salt)
                    inserted == SignUpInsert(uploaded, row)
                IN
                /\ nextUserId <= MaxUsers
                /\ IF inserted.status # 0
                   THEN /\ last' = inserted
                        /\ UNCHANGED <<users, nextUserId, signedUpWith>>
                   ELSE /\ users' = users \cup {row}
                        /\ nextUserId' = nextUserId + 1
                        /\ signedUpWith' = Remember(signedUpWith, row.id, req.password)
                        /\ \E mailOk \in BOOLEAN : last' = SignUpMail(inserted, mailOk)

----------------------------------------------------------------------------
(* JWT: a token is its signing secret and its claims; jwt.verify accepts a *)
(* token signed with the given secret whose exp lies in the future.        *)

jwtSign(userId, role, secret, expiresIn) ==
    [secret |-> secret, userId |-> userId, role |-> role,
     iat |-> now, exp |-> now + expiresIn]

jwtVerify(token, secret) ==
    /\ token.secret = secret
    /\ now < token.exp

generateAuthTokenUtils(userId, role) ==
    jwtSign(userId, role, "ACCESS_TOKEN_SECRET", ACCESS_TOKEN_EXPIRY)

generateRefreshTokenUtils(userId) ==
    jwtSign(userId, "", "REFRESH_TOKEN_SECRET", REFRESH_TOKEN_EXPIRY)

(* Signs the pair and returns it; no statement writes users.refresh_token. *)
generateAccessAndRefreshTokens(userId, role) ==
    [generatedAccessToken  |-> generateAuthTokenUtils(userId, role),
     generatedRefreshToken |-> generateRefreshTokenUtils(userId)]

WithinIssueBound(tokens) ==
    Cardinality(issued \cup {tokens.generatedAccessToken, tokens.generatedRefreshToken})
        <= 2 * MaxIssued

(* res.status(200).cookie(accessToken).cookie(refreshToken).json(...) *)
SendTokens(req, tokens, message) ==
    [Respond(req, 200, message) EXCEPT
        !.accessToken = tokens.generatedAccessToken,
        !.refreshToken = tokens.generatedRefreshToken,
        !.cookies = {"accessToken", "refreshToken"}]

----------------------------------------------------------------------------
(* POST /auth/sign-in *)

SignInBodies ==
    [email : Emails \cup {"nobody@x.com"}, password : Passwords]
        \cup {[email |-> "", password |-> "pw1"], [email |-> "a@x.com", password |-> ""]}

SignInCheck_unverifiedAllowed(req) ==
    LET isValid == validateRequiredFields(<<req.email, req.password>>)
        check == checkUserExistsUtils(req.email, TRUE)
        caught == handleError(check.error, "Something went wrong while signing in")
        found == [req EXCEPT !.userData = check.userData]
    IN  IF ~isValid THEN Respond(req, 400, "Missing required fields")
        ELSE IF check.threw THEN Respond(req, caught.status, caught.message)
        ELSE IF ~verifyPassword(req.password, check.userData.password)
             THEN Respond(found, 401, "Invalid credentials")
        ELSE found

(* Lines 191-210: the checks before any token is made; status 0 lets the   *)
(* handler go on.                                                          *)
SignInCheck(req) ==
    LET isValid == validateRequiredFields(<<req.email, req.password>>)
        check == checkUserExistsUtils(req.email, TRUE)
        caught == handleError(check.error, "Something went wrong while signing in")
        found == [req EXCEPT !.userData = check.userData]
    IN  IF ~isValid THEN Respond(req, 400, "Missing required fields")
        ELSE IF check.threw THEN Respond(req, caught.status, caught.message)
        ELSE IF ~check.userData.is_verified THEN Respond(found, 400, "User is not verified")
        ELSE IF ~verifyPassword(req.password, check.userData.password)
             THEN Respond(found, 401, "Invalid credentials")
        ELSE found

SignIn(bodies) ==
    \E body \in bodies :
        LET req == [Request("sign-in") EXCEPT !.email = body.email, !.password = body.password]
            checked == SignInCheck(req)
            userData == checked.userData
            tokens == generateAccessAndRefreshTokens(userData.id, userData.role)
        IN
        /\ UNCHANGED <<otp_codes, nextUserId, nextOtpId, now, redeemed, revoked, consumed,
                       signedUpWith, reqs>>
        /\ IF checked.status # 0
           THEN /\ last' = checked
                /\ UNCHANGED <<users, issued>>
           ELSE /\ WithinIssueBound(tokens)
                /\ UNCHANGED users
                /\ issued' = issued \cup {tokens.generatedAccessToken, tokens.generatedRefreshToken}
                /\ last' = [SendTokens(checked, tokens, "User signed in successfully") EXCEPT
                              !.data = Returning(userData, {"id", "email", "firstname", "lastname", "role"})]

----------------------------------------------------------------------------
(* Access control.  A middleware yields the response it sends (status 0:   *)
(* none) and whether it calls next().                                      *)

Guard(status, message, next) == [status |-> status, message |-> message, next |-> next]

(* verifyJWT: the branch for a token whose user row is gone sends its 401  *)
(* and has no return, so next() is called after it.                        *)
verifyJWT(path, token) ==
    IF path = "/sign-out" THEN Guard(0, "", TRUE)
    ELSE IF token = NoToken THEN Guard(401, "Unauthorized request", FALSE)
    ELSE IF ~jwtVerify(token, "ACCESS_TOKEN_SECRET")
         THEN Guard(401, "Invalid access token", FALSE)
    ELSE IF SelectUserById(token.userId).id = 0
         THEN Guard(401, "Invalid Access Token", TRUE)
    ELSE Guard(0, "", TRUE)

AccessTokens == {t \in issued : t.secret = "ACCESS_TOKEN_SECRET"}

RefreshTokens == {t \in issued : t.secret = "REFRESH_TOKEN_SECRET"}

----------------------------------------------------------------------------
(* POST /auth/sign-out: verifyJWT, then signOut *)

ClearRefreshToken_wholeRow(profileId) ==
    {IF u.id = profileId THEN [u EXCEPT !.refresh_token = NoToken, !.is_verified = FALSE]
     ELSE u : u \in users}

(* UPDATE users SET refresh_token = NULL WHERE id = $1 *)
ClearRefreshToken(profileId) ==
    {IF u.id = profileId THEN [u EXCEPT !.refresh_token = NoToken] ELSE u : u \in users}

SignOut ==
    \E token \in AccessTokens \cup {NoToken}, profileId \in 0..MaxUsers :
        LET auth == verifyJWT("/sign-out", token)
            req == [Request("sign-out") EXCEPT
                       !.id = profileId, !.token = token, !.handled = auth.next,
                       !.tokenUserExists = SelectUserById(token.userId).id # 0,
                       !.replay = \E t \in revoked : t.userId = profileId]
        IN
        /\ UNCHANGED <<otp_codes, nextUserId, nextOtpId, now, issued, redeemed, consumed,
                       signedUpWith, reqs>>
        /\ IF ~auth.next
           THEN /\ last' = Respond(req, auth.status, auth.message)
                /\ UNCHANGED <<users, revoked>>
           ELSE IF profileId = 0
           THEN /\ last' = Respond(req, 400, "User ID not provided")
                /\ UNCHANGED <<users, revoked>>
           ELSE /\ users' = ClearRefreshToken(profileId)
                /\ revoked' = revoked \cup {t \in RefreshTokens : t.userId = profileId}
                /\ last' = Respond(req, 200, "User logged out successfully")

----------------------------------------------------------------------------
(* POST /auth/refresh-token *)

(* Lines 292-304: the checks on the incoming token; the user row found, or *)
(* the error thrown.                                                       *)
RefreshCheck(incomingRefreshToken) ==
    LET user == SelectUserById(incomingRefreshToken.userId)
    IN  IF incomingRefreshToken = NoToken
        THEN [threw |-> TRUE, error |-> ApiError(401, "Unauthorized request"), user |-> NoUser]
        ELSE IF ~jwtVerify(incomingRefreshToken, "REFRESH_TOKEN_SECRET")
        THEN [threw |-> TRUE, error |-> Error("jwt malformed, invalid or expired"), user |-> NoUser]
        ELSE IF user.id = 0
        THEN [threw |-> TRUE, error |-> ApiError(401, "Invalid refresh token"), user |-> NoUser]
        ELSE [threw |-> FALSE, error |-> Error(""), user |-> user]

RefreshAccessToken ==
    \E incomingRefreshToken \in issued \cup {NoToken, Forged} :
        LET req == [Request("refresh-token") EXCEPT
                       !.token = incomingRefreshToken,
                       !.replay = incomingRefreshToken \in redeemed,
                       !.tokenUserExists = SelectUserById(incomingRefreshToken.userId).id # 0]
            check == RefreshCheck(incomingRefreshToken)
            caught == handleError(check.error, "Invalid refresh token")
            tokens == generateAccessAndRefreshTokens(check.user.id, check.user.role)
        IN
        /\ UNCHANGED <<otp_codes, nextUserId, nextOtpId, now, revoked, consumed,
                       signedUpWith, reqs>>
        /\ IF check.threw
           THEN /\ last' = Respond(req, caught.status, caught.message)
                /\ UNCHANGED <<users, issued, redeemed>>
           ELSE /\ WithinIssueBound(tokens)
                /\ UNCHANGED users
                /\ issued' = issued \cup {tokens.generatedAccessToken, tokens.generatedRefreshToken}
                /\ redeemed' = redeemed \cup {incomingRefreshToken}
                /\ last' = SendTokens([req EXCEPT !.userData = check.user], tokens,
                                      "Access token refreshed")

----------------------------------------------------------------------------
(* OTP codes: POST /auth/verify-email, /auth/forgot-password, /auth/verify-otp *)

addMinutesToDate(date, minutes) == date + minutes

NewOtpRow(userId, otp) ==
    [id |-> nextOtpId, user_id |-> userId, otp |-> otp,
     otp_expiry |-> addMinutesToDate(now, OtpExpiryMinutes), created_at |-> nextOtpId]

LatestOtp_oldest(userId) ==
    LET mine == {r \in otp_codes : r.user_id = userId}
    IN  IF mine = {} THEN NoOtp
        ELSE CHOOSE r \in mine : \A q \in mine : r.created_at <= q.created_at

(* SELECT * FROM otp_codes WHERE user_id = $1 ORDER BY created_at DESC LIMIT 1 *)
LatestOtp(userId) ==
    LET mine == {r \in otp_codes : r.user_id = userId}
    IN  IF mine = {} THEN NoOtp
        ELSE CHOOSE r \in mine : \A q \in mine : q.created_at <= r.created_at

DeleteOtpById_keep(id) == otp_codes

(* DELETE FROM otp_codes WHERE id = $1 *)
DeleteOtpById(id) == {r \in otp_codes : r.id # id}

(* UPDATE users SET is_verified = true WHERE id = $1 *)
SetVerified(userId) ==
    {IF u.id = userId THEN [u EXCEPT !.is_verified = TRUE] ELSE u : u \in users}

EmailBodies == Emails \cup {""}

(* The part verifyEmail and forgotPassword share: generate, store, send.   *)
IssueOtp(req, userData, defaultMessage, okMessage) ==
    \E otp \in OtpChars, mailOk \in BOOLEAN :
        LET caught == handleError(Error("mail transport error"), defaultMessage)
            stored == [req EXCEPT !.userData = userData, !.otp = otp]
        IN
        /\ nextOtpId <= MaxOtps
        /\ otp_codes' = otp_codes \cup {NewOtpRow(userData.id, otp)}
        /\ nextOtpId' = nextOtpId + 1
        /\ last' = IF mailOk
                   THEN [Respond(stored, 200, okMessage) EXCEPT !.effects = {"otp-mail"}]
                   ELSE Respond(stored, caught.status, caught.message)

VerifyEmail ==
    \E email \in EmailBodies :
        LET req == [Request("verify-email") EXCEPT !.email = email]
            check == checkUserExistsUtils(email, TRUE)
            caught == handleError(check.error, "Something went wrong while verifying email")
        IN
        /\ UNCHANGED <<users, nextUserId, now, issued, redeemed, revoked, consumed,
                       signedUpWith, reqs>>
        /\ IF ~validateRequiredFields(<<email>>)
           THEN /\ last' = Respond(req, 400, "Missing required fields")
                /\ UNCHANGED <<otp_codes, nextOtpId>>
           ELSE IF check.threw
           THEN /\ last' = Respond(req, caught.status, caught.message)
                /\ UNCHANGED <<otp_codes, nextOtpId>>
           ELSE IF check.userData.is_verified
           THEN /\ last' = Respond([req EXCEPT !.userData = check.userData], 400,
                                   "User is already verified")
                /\ UNCHANGED <<otp_codes, nextOtpId>>
           ELSE IssueOtp(req, check.userData, "Something went wrong while verifying email",
                         "OTP sent successfully for verify email")

ForgotPassword ==
    \E email \in EmailBodies :
        LET req == [Request("forgot-password") EXCEPT !.email = email]
            check == checkUserExistsUtils(email, TRUE)
            caught == handleError(check.error, "Error processing password reset request")
        IN
        /\ UNCHANGED <<users, nextUserId, now, issued, redeemed, revoked, consumed,
                       signedUpWith, reqs>>
        /\ IF ~validateRequiredFields(<<email>>)
           THEN /\ last' = Respond(req, 400, "Missing required fields")
                /\ UNCHANGED <<otp_codes, nextOtpId>>
           ELSE IF check.threw
           THEN /\ last' = Respond(req, caught.status, caught.message)
                /\ UNCHANGED <<otp_codes, nextOtpId>>
           ELSE IF ~check.userData.is_verified
           THEN /\ last' = Respond([req EXCEPT !.userData = check.userData], 400,
                                   "User is not verified")
                /\ UNCHANGED <<otp_codes, nextOtpId>>
           ELSE IssueOtp(req, check.userData, "Error processing password reset request",
                         "OTP sent successfully")

VerifyOtpBodies ==
    [email : Emails, otp : OtpChars]
        \cup {[email |-> "", otp |-> "7k#"], [email |-> "a@x.com", otp |-> ""]}

(* Line 460: the test that guards the "Invalid or expired OTP." response *)
OtpRejected(otpData, otp) ==
    otpData.otp # otp \/ now > otpData.otp_expiry

(* Lines 458-473.  The rejection at 460-462 sends its response and does    *)
(* not return: the statements after it run in both cases.  When a response *)
(* went out already, the sendResponse of line 470 throws, and so does the  *)
(* one handleError makes in the catch block: the exception leaves the      *)
(* handler.                                                                *)
VerifyOtpFinish(req, userData, otpData) ==
    LET rejected == OtpRejected(otpData, req.otp)
        found == [req EXCEPT !.userData = userData, !.otpData = otpData]
    IN
    /\ otp_codes' = DeleteOtpById(otpData.id)
    /\ users' = SetVerified(userData.id)
    /\ consumed' = IF rejected THEN consumed ELSE consumed \cup {otpData}
    /\ last' = IF rejected
               THEN [Respond(found, 400, "Invalid or expired OTP.") EXCEPT !.threw = TRUE]
               ELSE Respond(found, 200, "OTP verified successfully")

VerifyOTP ==
    \E body \in VerifyOtpBodies :
        LET req == [Request("verify-otp") EXCEPT !.email = body.email, !.otp = body.otp]
            check == checkUserExistsUtils(body.email, TRUE)
            caught == handleError(check.error, "Something went wrong while verifying email")
            otpData == LatestOtp(check.userData.id)
        IN
        /\ UNCHANGED <<nextUserId, nextOtpId, now, issued, redeemed, revoked, signedUpWith, reqs>>
        /\ IF ~validateRequiredFields(<<body.email, body.otp>>)
           THEN /\ last' = Respond(req, 400, "Missing required fields")
                /\ UNCHANGED <<users, otp_codes, consumed>>
           ELSE IF check.threw
           THEN /\ last' = Respond(req, caught.status, caught.message)
                /\ UNCHANGED <<users, otp_codes, consumed>>
           ELSE IF otpData.id = 0
           THEN /\ last' = Respond([req EXCEPT !.userData = check.userData], 400, "No OTP found.")
                /\ UNCHANGED <<users, otp_codes, consumed>>
           ELSE VerifyOtpFinish(req, check.userData, otpData)

----------------------------------------------------------------------------
(* Role checks: adminMiddleware and nonAdminMiddleware decide on the claims *)
(* of the token alone; neither reads the users table.                      *)

adminMiddleware_anyRole(token) ==
    IF token = NoToken THEN Guard(401, "No authentication token provided", FALSE)
    ELSE IF ~jwtVerify(token, "ACCESS_TOKEN_SECRET") THEN Guard(401, "Token is not valid", FALSE)
    ELSE Guard(0, "", TRUE)

adminMiddleware(token) ==
    IF token = NoToken THEN Guard(401, "No authentication token provided", FALSE)
    ELSE IF ~jwtVerify(token, "ACCESS_TOKEN_SECRET") THEN Guard(401, "Token is not valid", FALSE)
    ELSE IF token.userId = 0 \/ token.role # "admin"
         THEN Guard(403, "Admin access required", FALSE)
    ELSE Guard(0, "", TRUE)

(* The catch block hands the error of jwt.verify to handleError. *)
nonAdminMiddleware(token) ==
    LET caught == handleError(Error("jwt malformed, invalid or expired"), "Token is not valid")
    IN  IF token = NoToken THEN Guard(401, "No authentication token provided", FALSE)
        ELSE IF ~jwtVerify(token, "ACCESS_TOKEN_SECRET")
             THEN Guard(caught.status, caught.message, FALSE)
        ELSE IF token.role = "admin"
             THEN Guard(403, "Access denied. This route is only accessible to passengers", FALSE)
        ELSE Guard(0, "", TRUE)

----------------------------------------------------------------------------
(* /user routes: all-users, and profile read, update and delete by id.     *)
(* The columns phone_number and created_at are selected but carry no value *)
(* in this model.                                                          *)

ProfileCols ==
    {"id", "avatar", "firstname", "lastname", "email", "phone_number", "is_verified",
     "created_at"}

TokenInputs == issued \cup {NoToken, Forged}

ProfileIds == 1..MaxUsers

ProfileBodies == {[firstname |-> "Janet", lastname |-> "Roe"]}

(* The request as it reaches the handler, or the response of the guard. *)
Guarded(op, guard, token, id) ==
    LET req == [Request(op) EXCEPT
                   !.id = id, !.token = token, !.handled = guard.next,
                   !.tokenUserExists = SelectUserById(token.userId).id # 0]
    IN  IF guard.status # 0 THEN Respond(req, guard.status, guard.message) ELSE req

(* Lines 53-61: the public id of the image the avatar url points at *)
ExistAvatar(existingAvatarUrl) ==
    IF existingAvatarUrl = uploadOnCloudinary(TRUE, TRUE) THEN "avatar" ELSE ""

(* GET /user/all-users: adminMiddleware, then getAllUsers *)
GetAllUsers ==
    \E token \in TokenInputs :
        LET req == Guarded("all-users", adminMiddleware(token), token, 0)
            rows == {Returning(u, ProfileCols) : u \in {v \in users : v.is_verified /\ v.role = "user"}}
        IN
        /\ UNCHANGED <<users, otp_codes, nextUserId, nextOtpId, now, issued, redeemed, revoked,
                       consumed, signedUpWith, reqs>>
        /\ last' = IF ~req.handled THEN req
                   ELSE [Respond(req, 200, "Users fetched successfully") EXCEPT !.list = rows]

(* GET /user/:id: verifyJWT, then getUserById.  A handler that is invoked  *)
(* after the middleware has responded throws at its own res.json, and      *)
(* again at the one of its catch block.                                    *)
GetUserById ==
    \E token \in TokenInputs, id \in ProfileIds :
        LET req == Guarded("get-user", verifyJWT("/:id", token), token, id)
            user == SelectUserById(id)
        IN
        /\ UNCHANGED <<users, otp_codes, nextUserId, nextOtpId, now, issued, redeemed, revoked,
                       consumed, signedUpWith, reqs>>
        /\ last' = IF ~req.handled THEN req
                   ELSE IF req.status # 0 THEN [req EXCEPT !.threw = TRUE]
                   ELSE [Respond(req, 200, "User fetched successfully") EXCEPT
                            !.data = IF user.id = 0 THEN NoData ELSE Returning(user, ProfileCols)]

(* UPDATE users SET firstname, lastname, phone_number, avatar WHERE id = $5 *)
UpdateUser(id, body, avatar) ==
    {IF u.id = id
     THEN [u EXCEPT !.firstname = body.firstname, !.lastname = body.lastname, !.avatar = avatar]
     ELSE u : u \in users}

(* PUT /user/:id: nonAdminMiddleware, upload.single, then updateProfileById *)
UpdateProfileById ==
    \E token \in TokenInputs, id \in ProfileIds, body \in ProfileBodies, file \in BOOLEAN :
        LET req == [Guarded("update-profile", nonAdminMiddleware(token), token, id) EXCEPT
                       !.firstname = body.firstname, !.lastname = body.lastname, !.file = file]
            existProfile == SelectUserById(id)
            existAvatar == ExistAvatar(existProfile.avatar)
        IN
        /\ UNCHANGED <<otp_codes, nextUserId, nextOtpId, now, issued, redeemed, revoked,
                       consumed, signedUpWith, reqs>>
        /\ IF ~req.handled
           THEN /\ last' = req
                /\ UNCHANGED users
           ELSE IF existProfile.id = 0
           THEN /\ last' = Respond(req, 404, "Profile Not found")
                /\ UNCHANGED users
           ELSE \E destroyOk \in (IF file /\ existAvatar # "" THEN BOOLEAN ELSE {TRUE}),
                   uploadOk \in (IF file THEN BOOLEAN ELSE {TRUE}) :
                LET avatar == IF file THEN uploadOnCloudinary(file, uploadOk)
                              ELSE existProfile.avatar
                    effects == (IF file /\ existAvatar # "" THEN {"destroy"} ELSE {})
                                  \cup uploadEffects(file, uploadOk)
                IN  IF ~destroyOk
                    THEN /\ last' = Respond(req, 500,
                                        "Something went wrong while updating the user details")
                         /\ UNCHANGED users
                    ELSE /\ users' = UpdateUser(id, body, avatar)
                         /\ last' = [Respond(req, 200, "Profile updated successfully") EXCEPT
                                        !.effects = effects,
                                        !.data = Returning(
                                            [existProfile EXCEPT !.firstname = body.firstname,
                                                                 !.lastname = body.lastname,
                                                                 !.avatar = avatar],
                                            ProfileCols)]

(* DELETE FROM users WHERE id = $1; otp_codes.user_id is ON DELETE CASCADE *)
DeleteUser(id) == {u \in users : u.id # id}

DeleteOtpCascade(id) == {r \in otp_codes : r.user_id # id}

(* DELETE /user/:id: nonAdminMiddleware, then deleteProfileById.  Lines     *)
(* 115-125: an error of the image host or of the DELETE is logged and      *)
(* dropped, and the 200 of line 128 is sent in every case.                 *)
DeleteProfileById ==
    \E token \in TokenInputs, id \in ProfileIds :
        LET req == Guarded("delete-profile", nonAdminMiddleware(token), token, id)
            existProfile == SelectUserById(id)
            existAvatar == ExistAvatar(existProfile.avatar)
        IN
        /\ UNCHANGED <<nextUserId, nextOtpId, now, issued, redeemed, revoked,
                       consumed, signedUpWith, reqs>>
        /\ IF ~req.handled
           THEN /\ last' = req
                /\ UNCHANGED <<users, otp_codes>>
           ELSE IF existProfile.id = 0
           THEN /\ last' = Respond(req, 404, "Profile Not found")
                /\ UNCHANGED <<users, otp_codes>>
           ELSE \E destroyOk \in (IF existAvatar # "" THEN BOOLEAN ELSE {TRUE}) :
                /\ users' = IF destroyOk THEN DeleteUser(id) ELSE users
                /\ otp_codes' = IF destroyOk THEN DeleteOtpCascade(id) ELSE otp_codes
                /\ last' = [Respond(req, 200, "Profile deleted successfully") EXCEPT
                               !.effects = IF destroyOk /\ existAvatar # "" THEN {"destroy"} ELSE {},
                               !.data = Returning(existProfile, ProfileCols)]

----------------------------------------------------------------------------
(* The clock *)

Tick ==
    /\ now + MinutesPerTick <= MaxTime
    /\ now' = now + MinutesPerTick
    /\ UNCHANGED <<users, otp_codes, nextUserId, nextOtpId, issued, redeemed, revoked,
                   consumed, signedUpWith, last, reqs>>

----------------------------------------------------------------------------
(* Concurrent sign-up requests: the handler split at its awaits.  A request *)
(* is received (validation and the SELECT of the existence check), uploads *)
(* its avatar, inserts its row, sends the welcome email and responds.      *)

Idle == [pc |-> "idle", req |-> Request("sign-up"), avatar |-> ""]

RaceBodies ==
    [firstname : {"Jane"}, lastname : {"Doe"}, email : Emails,
     password : {"pw1"}, role : {"user"}]

RaceReceive(i) ==
    /\ reqs[i].pc = "idle"
    /\ \E body \in RaceBodies, file \in BOOLEAN :
        LET checked == SignUpCheck(SignUpRequest(body, file))
        IN  reqs' = [reqs EXCEPT ![i] =
                        [pc |-> IF checked.status # 0 THEN "done"
                                ELSE IF file THEN "upload" ELSE "insert",
                         req |-> checked, avatar |-> ""]]
    /\ UNCHANGED <<users, otp_codes, nextUserId, nextOtpId, now, issued, redeemed, revoked,
                   consumed, signedUpWith, last>>

RaceUpload(i) ==
    /\ reqs[i].pc = "upload"
    /\ \E uploadOk \in BOOLEAN :
        LET avatar == uploadOnCloudinary(TRUE, uploadOk)
        IN  reqs' = [reqs EXCEPT ![i].pc = "insert", ![i].avatar = avatar,
                                 ![i].req.effects = uploadEffects(TRUE, uploadOk)]
    /\ UNCHANGED <<users, otp_codes, nextUserId, nextOtpId, now, issued, redeemed, revoked,
                   consumed, signedUpWith, last>>

RaceInsert(i) ==
    /\ reqs[i].pc = "insert"
    /\ nextUserId <= MaxUsers
    /\ \E salt \in Salts :
        LET row == NewUserRow(reqs[i].req, reqs[i].avatar, salt)
            inserted == SignUpInsert(reqs[i].req, row)
        IN  IF inserted.status # 0
            THEN /\ reqs' = [reqs EXCEPT ![i].pc = "done", ![i].req = inserted]
                 /\ UNCHANGED <<users, nextUserId, signedUpWith>>
            ELSE /\ reqs' = [reqs EXCEPT ![i].pc = "mail", ![i].req = inserted]
                 /\ users' = users \cup {row}
                 /\ nextUserId' = nextUserId + 1
                 /\ signedUpWith' = Remember(signedUpWith, row.id, row.password.digest[2])
    /\ UNCHANGED <<otp_codes, nextOtpId, now, issued, redeemed, revoked, consumed, last>>

RaceMail(i) ==
    /\ reqs[i].pc = "mail"
    /\ \E mailOk \in BOOLEAN :
        reqs' = [reqs EXCEPT ![i].pc = "done", ![i].req = SignUpMail(reqs[i].req, mailOk)]
    /\ UNCHANGED <<users, otp_codes, nextUserId, nextOtpId, now, issued, redeemed, revoked,
                   consumed, signedUpWith, last>>

----------------------------------------------------------------------------
(* Concurrent refresh-token requests: refreshAccessToken split at its      *)
(* awaits.  A request is received (token read and verified, line 292-298), *)
(* gets the row of its user (line 300-304), and signs and sends the new    *)
(* pair (line 306-323).  overlapped says that another request was in       *)
(* flight at some moment of this one.                                      *)

RefreshIdle == [pc |-> "idle", req |-> Request("refresh-token"), overlapped |-> FALSE]

InFlight(i) == \E j \in DOMAIN reqs : j # i /\ reqs[j].pc \notin {"idle", "done"}

(* The request handled last is the one that completed last. *)
RefreshRaceDone(i, response) ==
    /\ reqs' = [reqs EXCEPT ![i].pc = "done", ![i].req = response]
    /\ last' = response

RefreshRaceReceive(i) ==
    /\ reqs[i].pc = "idle"
    /\ \E incomingRefreshToken \in RefreshTokens \cup {NoToken} :
        LET req == [Request("refresh-token") EXCEPT
                       !.token = incomingRefreshToken,
                       !.replay = incomingRefreshToken \in redeemed,
                       !.tokenUserExists = SelectUserById(incomingRefreshToken.userId).id # 0]
            check == RefreshCheck(incomingRefreshToken)
            caught == handleError(check.error, "Invalid refresh token")
        IN  IF incomingRefreshToken = NoToken
               \/ ~jwtVerify(incomingRefreshToken, "REFRESH_TOKEN_SECRET")
            THEN RefreshRaceDone(i, Respond(req, caught.status, caught.message))
            ELSE /\ reqs' = [j \in DOMAIN reqs |->
                               IF j = i THEN [pc |-> "select", req |-> req,
                                              overlapped |-> InFlight(i)]
                               ELSE IF reqs[j].pc \in {"idle", "done"} THEN reqs[j]
                               ELSE [reqs[j] EXCEPT !.overlapped = TRUE]]
                 /\ UNCHANGED last
    /\ UNCHANGED <<users, otp_codes, nextUserId, nextOtpId, now, issued, redeemed, revoked,
                   consumed, signedUpWith>>

RefreshRaceSelect(i) ==
    /\ reqs[i].pc = "select"
    /\ LET user == SelectUserById(reqs[i].req.token.userId)
           caught == handleError(ApiError(401, "Invalid refresh token"), "Invalid refresh token")
       IN  IF user.id = 0
           THEN RefreshRaceDone(i, Respond(reqs[i].req, caught.status, caught.message))
           ELSE /\ reqs' = [reqs EXCEPT ![i].pc = "sign", ![i].req.userData = user]
                /\ UNCHANGED last
    /\ UNCHANGED <<users, otp_codes, nextUserId, nextOtpId, now, issued, redeemed, revoked,
                   consumed, signedUpWith>>

RefreshRaceRespond(i) ==
    /\ reqs[i].pc = "sign"
    /\ LET user == reqs[i].req.userData
           tokens == generateAccessAndRefreshTokens(user.id, user.role)
       IN  /\ WithinIssueBound(tokens)
           /\ issued' = issued \cup {tokens.generatedAccessToken, tokens.generatedRefreshToken}
           /\ redeemed' = redeemed \cup {reqs[i].req.token}
           /\ RefreshRaceDone(i, SendTokens([reqs[i].req EXCEPT !.at = now], tokens,
                                            "Access token refreshed"))
    /\ UNCHANGED <<users, otp_codes, nextUserId, nextOtpId, now, revoked, consumed, signedUpWith>>

----------------------------------------------------------------------------
(* Concurrent verify-otp requests: verifyOTP split at its awaits.  A        *)
(* request is received (validation and the user lookup, line 435-445),     *)
(* selects the latest OTP row and tests it (line 447-462), deletes that    *)
(* row (line 465), and marks the user verified and responds (line 468-470). *)

OtpIdle == [pc |-> "idle", req |-> Request("verify-otp")]

OtpRaceBodies == [email : {"a@x.com"}, otp : OtpChars]

OtpRaceReceive(i) ==
    /\ reqs[i].pc = "idle"
    /\ \E body \in OtpRaceBodies :
        LET req == [Request("verify-otp") EXCEPT !.email = body.email, !.otp = body.otp]
            check == checkUserExistsUtils(body.email, TRUE)
            caught == handleError(check.error, "Something went wrong while verifying email")
        IN  IF ~validateRequiredFields(<<body.email, body.otp>>)
            THEN RefreshRaceDone(i, Respond(req, 400, "Missing required fields"))
            ELSE IF check.threw
            THEN RefreshRaceDone(i, Respond(req, caught.status, caught.message))
            ELSE /\ reqs' = [reqs EXCEPT ![i] =
                                [pc |-> "select",
                                 req |-> [req EXCEPT !.userData = check.userData]]]
                 /\ UNCHANGED last
    /\ UNCHANGED <<users, otp_codes, nextUserId, nextOtpId, now, issued, redeemed, revoked,
                   consumed, signedUpWith>>

(* The response of line 461 is sent here; the handler goes on. *)
OtpRaceSelect(i) ==
    /\ reqs[i].pc = "select"
    /\ LET req == reqs[i].req
           otpData == LatestOtp(req.userData.id)
           found == [req EXCEPT !.otpData = otpData]
       IN  IF otpData.id = 0
           THEN RefreshRaceDone(i, Respond(req, 400, "No OTP found."))
           ELSE /\ reqs' = [reqs EXCEPT ![i] =
                               [pc |-> "delete",
                                req |-> IF OtpRejected(otpData, req.otp)
                                        THEN Respond(found, 400, "Invalid or expired OTP.")
                                        ELSE found]]
                /\ UNCHANGED last
    /\ UNCHANGED <<users, otp_codes, nextUserId, nextOtpId, now, issued, redeemed, revoked,
                   consumed, signedUpWith>>

OtpRaceDelete(i) ==
    /\ reqs[i].pc = "delete"
    /\ otp_codes' = DeleteOtpById(reqs[i].req.otpData.id)
    /\ reqs' = [reqs EXCEPT ![i].pc = "update"]
    /\ UNCHANGED <<users, nextUserId, nextOtpId, now, issued, redeemed, revoked, consumed,
                   signedUpWith, last>>

OtpRaceUpdate(i) ==
    /\ reqs[i].pc = "update"
    /\ LET req == reqs[i].req
           rejected == req.status # 0
       IN  /\ users' = SetVerified(req.userData.id)
           /\ consumed' = IF rejected THEN consumed ELSE consumed \cup {req.otpData}
           /\ RefreshRaceDone(i, IF rejected
                                 THEN [req EXCEPT !.at = now, !.threw = TRUE]
                                 ELSE Respond([req EXCEPT !.at = now], 200,
                                              "OTP verified successfully"))
    /\ UNCHANGED <<otp_codes, nextUserId, nextOtpId, now, issued, redeemed, revoked,
                   signedUpWith>>

----------------------------------------------------------------------------
(* otpGenerator(length, options): one call, held in reqs[1].  A string is  *)
(* the sequence of its characters.  The two alphabets of letters are       *)
(* abbreviated to three letters each; the digits and the special           *)
(* characters are those of the source.                                     *)

digits == <<"0", "1", "2", "3", "4", "5", "6", "7", "8", "9">>

lowerCaseAlphabets == <<"a", "b", "z">>

toUpperCase(c) ==
    CASE c = "a" -> "A"
      [] c = "b" -> "B"
      [] c = "z" -> "Z"
      [] OTHER -> c

upperCaseAlphabets == [i \in DOMAIN lowerCaseAlphabets |-> toUpperCase(lowerCaseAlphabets[i])]

specialChars == <<"#", "!", "&", "@">>

GenerateOptions ==
    [digits : BOOLEAN, lowerCaseAlphabets : BOOLEAN, upperCaseAlphabets : BOOLEAN,
     specialChars : BOOLEAN]

(* Line 29-33 *)
allowedChars(options) ==
    (IF options.digits THEN digits ELSE <<>>)
        \o (IF options.lowerCaseAlphabets THEN lowerCaseAlphabets ELSE <<>>)
        \o (IF options.upperCaseAlphabets THEN upperCaseAlphabets ELSE <<>>)
        \o (IF options.specialChars THEN specialChars ELSE <<>>)

LeadingZero_never(password, includeDigits, char) == FALSE

(* Line 44: the draw that is discarded *)
LeadingZero(password, includeDigits, char) ==
    Len(password) = 0 /\ includeDigits /\ char = "0"

(* skipped says that some draw of this call has been discarded. *)
OtpCall(length, options) ==
    [pc |-> "call", length |-> length, options |-> options, allowedChars |-> <<>>,
     password |-> <<>>, skipped |-> FALSE]

GenUnchanged ==
    UNCHANGED <<users, otp_codes, nextUserId, nextOtpId, now, issued, redeemed, revoked,
                consumed, signedUpWith, last>>

(* Line 22-39: the alphabet, the throw when it is empty *)
GenStart ==
    /\ reqs[1].pc = "call"
    /\ LET allowed == allowedChars(reqs[1].options)
       IN  reqs' = [reqs EXCEPT ![1].allowedChars = allowed,
                                ![1].pc = IF Len(allowed) = 0 THEN "threw" ELSE "loop"]
    /\ GenUnchanged

(* Line 40-49: one iteration of the loop.  crypto.randomInt(0, n) draws    *)
(* from 0..n-1.                                                            *)
GenLoop ==
    /\ reqs[1].pc = "loop"
    /\ Len(reqs[1].password) < reqs[1].length
    /\ \E charIndex \in 0..(Len(reqs[1].allowedChars) - 1) :
        LET char == reqs[1].allowedChars[charIndex + 1]
        IN  IF LeadingZero(reqs[1].password, reqs[1].options.digits, char)
            THEN reqs' = [reqs EXCEPT ![1].skipped = TRUE]
            ELSE reqs' = [reqs EXCEPT ![1].password = Append(reqs[1].password, char)]
    /\ GenUnchanged

(* Line 40 and 51: the loop test fails, the string is returned *)
GenReturn ==
    /\ reqs[1].pc = "loop"
    /\ ~(Len(reqs[1].password) < reqs[1].length)
    /\ reqs' = [reqs EXCEPT ![1].pc = "returned"]
    /\ GenUnchanged

----------------------------------------------------------------------------
(* The sweep of expired OTP rows: the callback cron runs on its schedule,  *)
(* independent of the request handlers.  reqs[1] is the record of the run  *)
(* made last: ok says that the DELETE succeeded, rowCount is the number of *)
(* rows it deleted, and turn flips with every run.                         *)

SweepIdle == [op |-> "sweep", ok |-> TRUE, rowCount |-> 0, turn |-> FALSE]

SweepDelete_all == {}

(* DELETE FROM otp_codes WHERE otp_expiry < NOW() *)
SweepDelete == {r \in otp_codes : ~(r.otp_expiry < now)}

(* A failure of the query is caught and logged; nothing else happens. *)
SweepRun(ok) ==
    /\ reqs[1].op = "sweep"
    /\ otp_codes' = IF ok THEN SweepDelete ELSE otp_codes
    /\ reqs' = [reqs EXCEPT ![1] =
                    [op |-> "sweep", ok |-> ok,
                     rowCount |-> Cardinality(otp_codes) - Cardinality(otp_codes'),
                     turn |-> ~reqs[1].turn]]
    /\ UNCHANGED <<users, nextUserId, nextOtpId, now, issued, redeemed, revoked, consumed,
                   signedUpWith, last>>

Sweep == \E ok \in BOOLEAN : SweepRun(ok)

----------------------------------------------------------------------------
(* Specifications *)

Init ==
    /\ users = {}
    /\ otp_codes = {}
    /\ nextUserId = 1
    /\ nextOtpId = 1
    /\ now = 0
    /\ issued = {}
    /\ redeemed = {}
    /\ revoked = {}
    /\ consumed = {}
    /\ signedUpWith = <<>>
    /\ last = Request("none")
    /\ reqs = <<>>

(* The account lifecycle: sign-up, email verification, sign-in. *)
Next ==
    \/ SignUp(SignUpBodies, {FALSE})
    \/ VerifyEmail
    \/ VerifyOTP
    \/ SignIn(SignInBodies)

Spec == Init /\ [][Next]_vars

(* Sign-up alone, with avatar files. *)
NextSignUp ==
    \/ SignUp(SignUpBodies, BOOLEAN)
    \/ Tick

SpecSignUp == Init /\ [][NextSignUp]_vars

(* A database two accounts have signed up in and verified their email. *)
Registered(id, email, password, role, is_verified) ==
    [NewUserRow([Request("sign-up") EXCEPT !.firstname = "Jane", !.lastname = "Doe",
                    !.email = email, !.password = password, !.role = role], "", "s1")
        EXCEPT !.id = id, !.is_verified = is_verified]

InitRegistered(verified1, verified2) ==
    /\ now = 0
    /\ nextUserId = 3
    /\ nextOtpId = 1
    /\ users = {Registered(1, "a@x.com", "pw1", "user", verified1),
                Registered(2, "b@x.com", "pw2", "admin", verified2)}
    /\ otp_codes = {}
    /\ issued = {}
    /\ redeemed = {}
    /\ revoked = {}
    /\ consumed = {}
    /\ signedUpWith = <<"pw1", "pw2">>
    /\ last = Request("none")
    /\ reqs = <<>>

(* Sessions: sign-in, sign-out and token refresh of verified accounts. *)
InitSession == InitRegistered(TRUE, TRUE)

NextSession ==
    \/ SignIn(SignInBodies)
    \/ SignOut
    \/ RefreshAccessToken
    \/ Tick

SpecSession == InitSession /\ [][NextSession]_vars

(* OTP codes over time, for one unverified and one verified account. *)
InitOtp == InitRegistered(FALSE, TRUE)

NextOtp ==
    \/ VerifyEmail
    \/ ForgotPassword
    \/ VerifyOTP
    \/ Tick

SpecOtp == InitOtp /\ [][NextOtp]_vars

(* Profiles: a verified passenger or driver and a verified admin, who has  *)
(* asked for a password reset; a third account may sign up.                *)
ProfileSignUpBodies ==
    [firstname : {"Jane"}, lastname : {"Doe"}, email : {"c@x.com"},
     password : {"pw1"}, role : {"user"}]

ProfileSignInBodies ==
    {[email |-> "a@x.com", password |-> "pw1"], [email |-> "b@x.com", password |-> "pw2"]}

InitProfile ==
    /\ now = 0
    /\ nextUserId = 3
    /\ nextOtpId = 1
    /\ \E role \in {"user", "driver"} :
          users = {Registered(1, "a@x.com", "pw1", role, TRUE),
                   Registered(2, "b@x.com", "pw2", "admin", TRUE)}
    /\ otp_codes = {[NewOtpRow(2, "7k#") EXCEPT !.id = 1, !.created_at = 1]}
    /\ issued = {}
    /\ redeemed = {}
    /\ revoked = {}
    /\ consumed = {}
    /\ signedUpWith = <<"pw1", "pw2">>
    /\ last = Request("none")
    /\ reqs = <<>>

NextProfile ==
    \/ SignUp(ProfileSignUpBodies, BOOLEAN)
    \/ SignIn(ProfileSignInBodies)
    \/ GetAllUsers
    \/ GetUserById
    \/ UpdateProfileById
    \/ DeleteProfileById

SpecProfile == InitProfile /\ [][NextProfile]_vars

(* The authentication check: the two routes behind verifyJWT, and account  *)
(* deletion.                                                               *)
NextAuthCheck ==
    \/ SignIn(ProfileSignInBodies)
    \/ SignOut
    \/ GetUserById
    \/ DeleteProfileById

SpecAuthCheck == InitProfile /\ [][NextAuthCheck]_vars

(* Refresh-token requests in flight at the same time, for two verified     *)
(* accounts that sign in.                                                  *)
InitRefreshRace ==
    /\ now = 0
    /\ nextUserId = 3
    /\ nextOtpId = 1
    /\ users = {Registered(1, "a@x.com", "pw1", "user", TRUE),
                Registered(2, "b@x.com", "pw2", "admin", TRUE)}
    /\ otp_codes = {}
    /\ issued = {}
    /\ redeemed = {}
    /\ revoked = {}
    /\ consumed = {}
    /\ signedUpWith = <<"pw1", "pw2">>
    /\ last = Request("none")
    /\ reqs = [i \in 1..MaxInFlight |-> RefreshIdle]

NextRefreshRace ==
    \/ SignIn(ProfileSignInBodies)
    \/ Tick
    \/ \E i \in 1..MaxInFlight :
        \/ RefreshRaceReceive(i)
        \/ RefreshRaceSelect(i)
        \/ RefreshRaceRespond(i)

SpecRefreshRace == InitRefreshRace /\ [][NextRefreshRace]_vars

(* Verify-otp requests in flight at the same time, for an unverified       *)
(* account that asks for verification codes.                               *)
InitVerifyOtpRace ==
    /\ now = 0
    /\ nextUserId = 3
    /\ nextOtpId = 1
    /\ users = {Registered(1, "a@x.com", "pw1", "user", FALSE),
                Registered(2, "b@x.com", "pw2", "admin", TRUE)}
    /\ otp_codes = {}
    /\ issued = {}
    /\ redeemed = {}
    /\ revoked = {}
    /\ consumed = {}
    /\ signedUpWith = <<"pw1", "pw2">>
    /\ last = Request("none")
    /\ reqs = [i \in 1..MaxInFlight |-> OtpIdle]

NextVerifyOtpRace ==
    \/ VerifyEmail
    \/ Tick
    \/ \E i \in 1..MaxInFlight :
        \/ OtpRaceReceive(i)
        \/ OtpRaceSelect(i)
        \/ OtpRaceDelete(i)
        \/ OtpRaceUpdate(i)

SpecVerifyOtpRace == InitVerifyOtpRace /\ [][NextVerifyOtpRace]_vars

(* One call of otpGenerator, for every length up to MaxLen and every       *)
(* choice of options.  The loop makes progress, and crypto.randomInt is    *)
(* uniform: a draw that is not discarded comes up with probability one.    *)
InitOtpGenerator ==
    /\ now = 0
    /\ nextUserId = 1
    /\ nextOtpId = 1
    /\ users = {}
    /\ otp_codes = {}
    /\ issued = {}
    /\ redeemed = {}
    /\ revoked = {}
    /\ consumed = {}
    /\ signedUpWith = <<>>
    /\ last = Request("none")
    /\ \E length \in 0..MaxLen, options \in GenerateOptions :
          reqs = <<OtpCall(length, options)>>

NextOtpGenerator ==
    \/ GenStart
    \/ GenLoop
    \/ GenReturn

SpecOtpGenerator ==
    InitOtpGenerator /\ [][NextOtpGenerator]_vars /\ WF_vars(NextOtpGenerator)

(* OTP codes over time with the sweep running beside the handlers.  The    *)
(* schedule fires again and again, and the database is not down for ever:  *)
(* a run whose DELETE succeeds comes in the end.                            *)
InitSweep ==
    /\ now = 0
    /\ nextUserId = 3
    /\ nextOtpId = 1
    /\ users = {Registered(1, "a@x.com", "pw1", "user", FALSE),
                Registered(2, "b@x.com", "pw2", "admin", TRUE)}
    /\ otp_codes = {}
    /\ issued = {}
    /\ redeemed = {}
    /\ revoked = {}
    /\ consumed = {}
    /\ signedUpWith = <<"pw1", "pw2">>
    /\ last = Request("none")
    /\ reqs = <<SweepIdle>>

NextSweep ==
    \/ VerifyEmail
    \/ VerifyOTP
    \/ Tick
    \/ Sweep

SpecSweep == InitSweep /\ [][NextSweep]_vars /\ WF_vars(SweepRun(TRUE))

(* Sign-up requests in flight at the same time. *)
InitSignUpRace ==
    /\ users = {}
    /\ otp_codes = {}
    /\ nextUserId = 1
    /\ nextOtpId = 1
    /\ now = 0
    /\ issued = {}
    /\ redeemed = {}
    /\ revoked = {}
    /\ consumed = {}
    /\ signedUpWith = <<>>
    /\ last = Request("none")
    /\ reqs = [i \in 1..MaxInFlight |-> Idle]

NextSignUpRace ==
    \E i \in 1..MaxInFlight :
        \/ RaceReceive(i)
        \/ RaceUpload(i)
        \/ RaceInsert(i)
        \/ RaceMail(i)

SpecSignUpRace == InitSignUpRace /\ [][NextSignUpRace]_vars

----------------------------------------------------------------------------
(* Properties *)

NoTokensIssued(resp) ==
    /\ resp.accessToken = NoToken
    /\ resp.refreshToken = NoToken
    /\ resp.cookies = {}

(* C1: once a refresh-token request has succeeded with refresh token T,    *)
(* every later refresh-token request that presents T is answered 401 and   *)
(* issues no tokens.                                                       *)
RefreshTokenSingleUse ==
    (last.op = "refresh-token" /\ last.replay)
        => (last.status = 401 /\ NoTokensIssued(last))

(* C2: a refresh-token request that presents an unexpired refresh token    *)
(* its user held when a sign-out succeeded for that user is answered 401   *)
(* and issues no tokens.                                                   *)
SignOutRevokesRefreshToken ==
    (last.op = "refresh-token" /\ last.token \in revoked /\ last.at < last.token.exp)
        => (last.status = 401 /\ NoTokensIssued(last))

(* C3: after a successful sign-in the refresh_token column of the user's   *)
(* row equals the refresh token returned in the response.                  *)
SignInStoresRefreshToken ==
    (last.op = "sign-in" /\ last.status = 200)
        => SelectUserById(last.userData.id).refresh_token = last.refreshToken

(* C4: a verify-otp request whose code differs from the user's most recent *)
(* OTP row, or whose most recent row has expired, is answered 400, leaves  *)
(* that row in place and leaves the user's is_verified flag as it was.     *)
RejectedOtpChangesNothing ==
    (/\ last.op = "verify-otp"
     /\ last.otpData.id # 0
     /\ (last.otpData.otp # last.otp \/ last.at > last.otpData.otp_expiry))
        => (/\ last.status = 400
            /\ last.otpData \in otp_codes
            /\ SelectUserById(last.userData.id).is_verified = last.userData.is_verified)

(* C5, as stated: the row a verify-otp request succeeded with is gone, and *)
(* no later verify-otp request of that user succeeds with the same code.   *)
OtpCodeSingleUse ==
    /\ consumed \cap otp_codes = {}
    /\ (last.op = "verify-otp" /\ last.status = 200)
          => \A r \in consumed :
                (r.user_id = last.otpData.user_id /\ r.otp = last.otp) => r = last.otpData

(* C5, amended: the row a verify-otp request succeeded with is gone and is *)
(* never matched again; a verify-otp request succeeds only with the code   *)
(* of the user's most recent row, which is unexpired and is deleted by it. *)
OtpRowSingleUse ==
    /\ consumed \cap otp_codes = {}
    /\ (last.op = "verify-otp" /\ last.status = 200)
          => /\ last.otpData \in consumed
             /\ last.otpData.user_id = last.userData.id
             /\ last.otpData.otp = last.otp
             /\ last.at <= last.otpData.otp_expiry
             /\ \A r \in otp_codes :
                   r.user_id = last.userData.id => r.created_at < last.otpData.created_at

(* C5 witness: a second verify-otp of the same user succeeded with the     *)
(* code an earlier one had succeeded with, on another row.                 *)
OtpCodeAcceptedTwice ==
    /\ last.op = "verify-otp"
    /\ last.status = 200
    /\ \E r \in consumed :
          r # last.otpData /\ r.user_id = last.otpData.user_id /\ r.otp = last.otp

(* C6: a sign-up whose email belongs to a user is answered 409, inserts no *)
(* row, uploads no avatar and sends no welcome email.                      *)
DuplicateEmailIsConflict ==
    (last.op = "sign-up" /\ last.userData.id # 0)
        => (/\ last.status = 409
            /\ last.effects = {}
            /\ \A u \in users : u.email = last.email => u = last.userData)

(* C7: a sign-in for a user whose is_verified is false is answered 400,    *)
(* with the "not verified" error when both fields are present, and issues  *)
(* no tokens and sets no cookies.                                          *)
UnverifiedCannotSignIn ==
    LET u == SelectUserByEmail(last.email)
    IN  (last.op = "sign-in" /\ u.id # 0 /\ ~u.is_verified)
            => (/\ last.status = 400
                /\ last.password # "" => last.message = "User is not verified"
                /\ NoTokensIssued(last)
                /\ \A t \in issued : t.userId # u.id)

(* C7 witness: an unverified user was refused although the password is right *)
UnverifiedRefusedWithCorrectPassword ==
    LET u == SelectUserByEmail(last.email)
    IN  /\ last.op = "sign-in"
        /\ u.id # 0
        /\ ~u.is_verified
        /\ verifyPassword(last.password, u.password)
        /\ last.status = 400

(* C8: a sign-in whose email matches no user is answered 400 or 404,       *)
(* issues no tokens and sets no cookies.                                   *)
UnknownEmailIsNotFound ==
    (/\ last.op = "sign-in"
     /\ last.email # ""
     /\ last.password # ""
     /\ SelectUserByEmail(last.email).id = 0)
        => (last.status \in {400, 404} /\ NoTokensIssued(last))

Succeeded(email) ==
    {i \in DOMAIN reqs : reqs[i].pc = "done" /\ reqs[i].req.status = 201
                           /\ reqs[i].req.email = email}

(* C10: under any interleaving of sign-up requests that carry the same     *)
(* email, at most one user row has that email and at most one of the       *)
(* requests is answered 201.                                               *)
EmailUniqueUnderRace ==
    \A e \in Emails :
        /\ Cardinality({u \in users : u.email = e}) <= 1
        /\ Cardinality(Succeeded(e)) <= 1

(* C10 witness: two requests with the same email both passed the existence *)
(* check; one was answered 201, the other failed at its INSERT.            *)
LostTheRace ==
    \E i, j \in DOMAIN reqs :
        /\ i # j
        /\ reqs[i].req.email = reqs[j].req.email
        /\ reqs[i].pc = "done" /\ reqs[i].req.status = 201
        /\ reqs[j].pc = "done" /\ reqs[j].req.status = 500
        /\ reqs[j].req.userData.id = 0
        /\ reqs[j].req.message = "violates constraint"

(* The token of the last request verified under the given secret when the  *)
(* request was handled.                                                    *)
VerifiedAs(secret) ==
    /\ last.token # NoToken
    /\ last.token.secret = secret
    /\ last.at < last.token.exp

(* C11: on the routes behind the authentication check, a request whose     *)
(* token is absent, does not verify under the access-token secret, or      *)
(* names a user id without a row is answered 401 and its handler is not    *)
(* invoked.                                                                *)
AuthCheckGuardsHandler ==
    (/\ last.op \in {"get-user", "sign-out"}
     /\ ~(VerifiedAs("ACCESS_TOKEN_SECRET") /\ last.tokenUserExists))
        => (last.status = 401 /\ ~last.handled)

(* C12: a sign-out request that carries no valid access token is answered  *)
(* 401 and the signOut handler, which clears refresh_token, does not run.  *)
SignOutNeedsAccessToken ==
    (last.op = "sign-out" /\ ~VerifiedAs("ACCESS_TOKEN_SECRET"))
        => (last.status = 401 /\ ~last.handled)

(* C18: a refresh-token request that presents no token, a token that fails *)
(* signature or expiry verification, or a token whose user id has no row,  *)
(* is answered 401, issues no tokens and sets no cookies.                  *)
RefreshFailuresAre401 ==
    (/\ last.op = "refresh-token"
     /\ ~(VerifiedAs("REFRESH_TOKEN_SECRET") /\ last.tokenUserExists))
        => (last.status = 401 /\ NoTokensIssued(last))

(* C16: when the welcome email fails after the INSERT, the row stays and   *)
(* the sign-up is answered 201 with the user's public fields.              *)
WelcomeMailIsBestEffort ==
    (/\ last.op = "sign-up"
     /\ last.data.row.id # 0
     /\ "welcome-mail" \notin last.effects)
        => (/\ last.status = 201
            /\ last.data.cols = {"id", "email", "firstname", "lastname", "avatar"}
            /\ \E u \in users : u.id = last.data.row.id /\ u.email = last.email)

(* C17: every request gets exactly one response, and no exception leaves   *)
(* a handler: none responds a second time or goes on after an error.       *)
OneResponsePerRequest ==
    last.op # "none" => (last.status # 0 /\ ~last.threw)

(* C13: GET /user/all-users reaches its handler exactly when the token     *)
(* verifies and its role claim is 'admin'; a verified token with another   *)
(* role is answered 403, a missing or invalid token 401.                   *)
AllUsersAdminOnly ==
    last.op = "all-users"
        => LET verified == VerifiedAs("ACCESS_TOKEN_SECRET")
           IN  /\ last.handled <=> (verified /\ last.token.role = "admin")
               /\ last.handled => last.status = 200
               /\ (verified /\ last.token.role # "admin") => last.status = 403
               /\ ~verified => last.status = 401

(* C13 witness: a verified token of a passenger or driver was answered 403 *)
AllUsersForbidden ==
    /\ last.op = "all-users"
    /\ VerifiedAs("ACCESS_TOKEN_SECRET")
    /\ last.token.role \in {"user", "driver"}
    /\ last.status = 403
    /\ ~last.handled

(* C14: the non-admin check admits a request exactly when its token        *)
(* verifies and the role claim is not 'admin'; it answers 403 exactly when *)
(* the verified role is 'admin', and 401 when the token is missing or      *)
(* invalid.                                                                *)
NonAdminAdmitsNonAdmins ==
    last.op \in {"update-profile", "delete-profile"}
        => LET verified == VerifiedAs("ACCESS_TOKEN_SECRET")
           IN  /\ last.handled <=> (verified /\ last.token.role # "admin")
               /\ (last.status = 403) <=> (verified /\ last.token.role = "admin")
               /\ ~verified => last.status = 401

(* C15: on a route guarded by a role check alone, a verified, unexpired    *)
(* access token whose user row has been deleted is answered 401 and does   *)
(* not reach the handler.                                                  *)
DeletedUserTokenRejected ==
    (/\ last.op \in {"all-users", "update-profile", "delete-profile"}
     /\ VerifiedAs("ACCESS_TOKEN_SECRET")
     /\ ~last.tokenUserExists)
        => (last.status = 401 /\ ~last.handled)

(* C19: when delete-profile answers 200 for id X, no user row with id X    *)
(* and no OTP row with user_id X remains.                                  *)
DeleteSuccessMeansDeleted ==
    (last.op = "delete-profile" /\ last.status = 200)
        => (/\ \A u \in users : u.id # last.id
            /\ \A r \in otp_codes : r.user_id # last.id)

(* C20: no response of sign-up, sign-in, profile read, update, delete or   *)
(* all-users carries the password or the refresh_token column of a user.   *)
NoSecretsInResponses ==
    last.op \in {"sign-up", "sign-in", "get-user", "update-profile", "delete-profile",
                 "all-users"}
        => \A d \in {last.data} \cup last.list :
              /\ d.cols \cap {"password", "refresh_token"} = {}
              /\ d.row.password = PasswordText("")
              /\ d.row.refresh_token = NoToken

(* C20 witness: a profile read answered with the row of a user whose       *)
(* password column holds a hash.                                           *)
ProfileReadOfHashedUser ==
    /\ last.op = "get-user"
    /\ last.status = 200
    /\ last.data.row.id # 0
    /\ SelectUserById(last.data.row.id).password.alg = "$2b$"
    /\ last.data.row.email = SelectUserById(last.data.row.id).email

(* C21: after two concurrent refresh-token requests that presented the     *)
(* same valid refresh token have both completed, the stored refresh_token  *)
(* of the user is the refresh token issued by the request that completed   *)
(* last, and the one issued by the other request is refused by a later     *)
(* refresh-token request.                                                  *)
ConcurrentRefreshLastWins ==
    \A i, j \in DOMAIN reqs :
        (/\ i # j
         /\ reqs[i].pc = "done" /\ reqs[i].req.status = 200
         /\ reqs[j].pc = "done" /\ reqs[j].req.status = 200
         /\ reqs[i].overlapped /\ reqs[j].overlapped
         /\ reqs[i].req.token = reqs[j].req.token
         /\ last = reqs[j].req)
            => (/\ SelectUserById(last.userData.id).refresh_token = last.refreshToken
                /\ reqs[i].req.refreshToken # last.refreshToken
                      => RefreshCheck(reqs[i].req.refreshToken).threw)

(* C22: a successful sign-out for user id X leaves X's refresh_token null, *)
(* changes no other column and no other row, and always gives the same     *)
(* response; a sign-out of a user who was signed out before leaves the     *)
(* state as it is.                                                         *)
SignOutIdempotent ==
    [][(last'.op = "sign-out" /\ last'.status = 200 /\ last' # last)
          => (/\ users' = {IF u.id = last'.id THEN [u EXCEPT !.refresh_token = NoToken] ELSE u
                             : u \in users}
              /\ \A u \in users' : u.id = last'.id => u.refresh_token = NoToken
              /\ otp_codes' = otp_codes
              /\ last'.message = "User logged out successfully"
              /\ last'.replay => users' = users)]_vars

(* C22 witness: a sign-out succeeded for a user who had signed in and had  *)
(* been signed out before.                                                 *)
SignedOutTwice ==
    /\ last.op = "sign-out"
    /\ last.status = 200
    /\ last.replay
    /\ SelectUserById(last.id).id # 0

(* C23: verify-otp compares the supplied code with the user's OTP row of   *)
(* the latest created_at only: the code of an older row is answered 400    *)
(* while a newer row exists, and a success deletes that newest row and no  *)
(* other.                                                                  *)
VerifyOtpUsesNewestRow ==
    [][(last'.op = "verify-otp" /\ otp_codes' # otp_codes)
          => (/\ last'.otpData \in otp_codes
              /\ last'.otpData.user_id = SelectUserByEmail(last'.email).id
              /\ \A r \in otp_codes :
                    r.user_id = last'.otpData.user_id
                        => r.created_at <= last'.otpData.created_at
              /\ last'.otp # last'.otpData.otp => last'.status = 400
              /\ last'.status = 200 => (/\ last'.otp = last'.otpData.otp
                                        /\ otp_codes' = otp_codes \ {last'.otpData}))]_vars

(* C23 witness: the code of an older row was answered 400 because the      *)
(* user's newest row carries another code.                                 *)
OlderCodeRefused ==
    /\ last.op = "verify-otp"
    /\ last.status = 400
    /\ last.otpData.id # 0
    /\ last.otp # last.otpData.otp
    /\ \E r \in otp_codes :
          /\ r.user_id = last.otpData.user_id
          /\ r.otp = last.otp
          /\ r.created_at < last.otpData.created_at

(* C24: once a newer OTP with another code has been issued for a user, no  *)
(* later verify-otp request succeeds with the code of an older OTP row of  *)
(* that user, also not after the newer one has been consumed.              *)
OlderOtpNeverAccepted ==
    (last.op = "verify-otp" /\ last.status = 200)
        => \A r \in consumed \cup otp_codes :
              (r.user_id = last.otpData.user_id /\ r.otp # last.otp)
                  => r.created_at <= last.otpData.created_at

(* C25: of two verify-otp requests in flight at the same time that present *)
(* the same correct code for the same user, at most one is answered 200:   *)
(* no OTP row is accepted by two requests.                                 *)
OneWinnerPerOtpRow ==
    \A i, j \in DOMAIN reqs :
        (/\ i # j
         /\ reqs[i].pc = "done" /\ reqs[j].pc = "done"
         /\ reqs[i].req.op = "verify-otp" /\ reqs[j].req.op = "verify-otp"
         /\ reqs[i].req.email = reqs[j].req.email
         /\ reqs[i].req.otp = reqs[j].req.otp
         /\ reqs[i].req.otpData = reqs[j].req.otpData
         /\ reqs[i].req.status = 200)
            => reqs[j].req.status # 200

(* C28: a profile read by an authenticated caller for an id that matches   *)
(* no user is answered 404, not 200 with empty data.                       *)
ProfileReadMissingIs404 ==
    (/\ last.op = "get-user"
     /\ last.handled
     /\ ~last.threw
     /\ SelectUserById(last.id).id = 0)
        => last.status = 404

(* C29: after a sign-up, or a profile update that reached its handler,     *)
(* that carried an avatar file, the temp file written for the request has  *)
(* been unlinked, whatever the outcome of the request.                     *)
TempFileRemoved ==
    (/\ last.file
     /\ \/ last.op = "sign-up"
        \/ last.op = "update-profile" /\ last.handled)
        => "unlink" \in last.effects

(* C30: a profile update or delete for id X is carried out only when the   *)
(* access token of the request belongs to user X.                          *)
OnlyOwnProfileChanged ==
    (/\ last.op \in {"update-profile", "delete-profile"}
     /\ last.status = 200)
        => last.token.userId = last.id

EnabledChars(options) ==
    (IF options.digits THEN {"0", "1", "2", "3", "4", "5", "6", "7", "8", "9"} ELSE {})
        \cup (IF options.lowerCaseAlphabets THEN {"a", "b", "z"} ELSE {})
        \cup (IF options.upperCaseAlphabets THEN {"A", "B", "Z"} ELSE {})
        \cup (IF options.specialChars THEN {"#", "!", "&", "@"} ELSE {})

OtpGeneratorResult ==
    LET g == reqs[1]
    IN  /\ g.pc = "returned" =>
              /\ Len(g.password) = g.length
              /\ \A i \in DOMAIN g.password : g.password[i] \in EnabledChars(g.options)
              /\ (g.options.digits /\ g.length > 0) => g.password[1] # "0"
        /\ g.pc \in {"loop", "returned"} => EnabledChars(g.options) # {}
        /\ g.pc = "threw" => (EnabledChars(g.options) = {} /\ g.password = <<>>)

(* C27: otpGenerator(length, options) returns a string of exactly length   *)
(* characters, each of an enabled alphabet, whose first character is not   *)
(* '0' when digits are enabled; it throws instead of returning when every  *)
(* alphabet is disabled; and every call returns or throws in the end.      *)
OtpGeneratorCorrect ==
    []OtpGeneratorResult /\ <>(reqs[1].pc \in {"returned", "threw"})

(* A call that discarded a leading '0' and returned a string that has a    *)
(* '0' in its second place.                                                *)
LeadingZeroDiscarded ==
    /\ reqs # <<>>
    /\ reqs[1].pc = "returned"
    /\ reqs[1].skipped
    /\ reqs[1].length = 2
    /\ reqs[1].password[2] = "0"

ExpiredOtps == {r \in otp_codes : r.otp_expiry < now}

(* C26: a run of the sweep whose DELETE succeeds removes exactly the OTP    *)
(* rows whose otp_expiry is earlier than the current time; every run, a    *)
(* failed one too, leaves the unexpired OTP rows, the user rows and the    *)
(* request handled last as they are; and with the sweep running, an        *)
(* expired OTP row is removed in the end.                                  *)
SweepRemovesExpiredOnly ==
    /\ [][reqs' # reqs =>
            /\ users' = users
            /\ last' = last
            /\ otp_codes \ ExpiredOtps \subseteq otp_codes'
            /\ reqs'[1].ok => otp_codes' = otp_codes \ ExpiredOtps
            /\ ~reqs'[1].ok => otp_codes' = otp_codes]_vars
    /\ (ExpiredOtps # {}) ~> (ExpiredOtps = {})

(* A run that removed an expired row and left an unexpired one. *)
SweptOneOfTwo ==
    /\ reqs # <<>>
    /\ reqs[1].op = "sweep"
    /\ reqs[1].ok
    /\ reqs[1].rowCount > 0
    /\ otp_codes # {}

====
